---- MODULE Spec2Model ----
(***************************************************************************)
(* Wind-data analysis of one site (modules/analysis_runner.py) and the     *)
(* cross-site comparison with the building code                            *)
(* (global trend/global_comparator.py).                                    *)
(*                                                                         *)
(* Strings that the code inspects with startswith are sequences of         *)
(* one-character strings.  A wind speed is an integer; NaN is the missing  *)
(* marker of pandas.  A timestamp is reduced to its calendar year; NaT is  *)
(* the timestamp pd.to_datetime(errors='coerce') gives to unparsable text. *)
(***************************************************************************)
EXTENDS Integers, Sequences, FiniteSets, TLC

VARIABLES
    files,            \* CSV files of the site folder not yet visited by the loading loop
    unwritable,       \* (source, variable) pairs whose annual-maxima file cannot be written
    dataframes,       \* dict key -> DataFrame, in insertion order: Seq of [key, df]
    pc,               \* position inside run_analysis_for_site
    stats_summary,    \* keys of stats_summary (section 2)
    df_stats,         \* rows of stats_summary: [source, count, min, max]
    skipped_sources,  \* section 2
    pos,              \* return-period pass: <<index in dataframes, index of variable>>
    results_50y,      \* list of rows of return_period_50y.csv
    exports,          \* annual_max_<name>_<var>.csv files written: Seq of [name, var, rows]
    fitted,           \* annual_max samples handed to gumbel_r.fit: Seq of [name, var, sample]
    cpc,              \* position inside global_comparator.main for one site
    rp_csv,           \* content of return_period_50y.csv as read by load_return_data
    building_code,    \* building_code_windspeed_mean_50y of the site
    df_mean,          \* result of load_return_data
    ecarts,           \* result of compare_sources_to_building_code
    nb_depassements,  \* result of compare_sources_to_building_code
    phrase,           \* result of generate_analysis_sentence
    site_folder,      \* CSV files of the site folder, as they are on disk
    previous_csv,     \* return_period_50y.csv written by the run before this one
    previous_dataframes, \* the dict dataframes of the run before this one
    rerun,            \* the analysis is being run a second time on the same folder
    site_config,      \* the building-code cells of the site's row of the sites file
    sites,            \* script.main: the rows of the sites file
    site_i,           \* script.main: index of the next site of the loop
    site_data,        \* script.main: local variable site_data (Unbound before its first assignment)
    all_sites_data,   \* script.main: list handed to the visualisations
    analysed,         \* script.main: the calls of run_analysis_for_site: Seq of [site, outcome]
    mpc,              \* position inside script.main
    provider,         \* fetchers: the source being fetched
    options,          \* fetchers: correction factors passed to the Meteostat fetcher
    raw,              \* fetchers: the observations the provider returns
    site_csv,         \* fetchers: the CSV files written to the site folder: Seq of [stem, rows]
    fpc,              \* position inside the fetch of one source
    disk,             \* script.main, one site: the source files of the site folder
    cache,            \* the source files of the site folder when main reaches the site
    outcomes,         \* what each provider answers in this run: "ok", "empty" or "error"
    site_sources,     \* script.main: the dicts observed and model (site_data["data"])
    fetch_log,        \* the sources whose provider has been called in this run
    spc               \* position inside script.main for the sources of one site

vars == <<files, unwritable, dataframes, pc, stats_summary, df_stats, skipped_sources, pos,
          results_50y, exports, fitted,
          cpc, rp_csv, building_code, df_mean, ecarts, nb_depassements, phrase,
          site_folder, previous_csv, previous_dataframes, rerun, site_config,
          sites, site_i, site_data, all_sites_data, analysed, mpc,
          provider, options, raw, site_csv, fpc,
          disk, cache, outcomes, site_sources, fetch_log, spc>>

analysisVars == <<files, unwritable, dataframes, pc, stats_summary, df_stats, skipped_sources, pos,
                  results_50y, exports, fitted>>
cmpVars == <<cpc, rp_csv, building_code, df_mean, ecarts, nb_depassements, phrase>>
rerunVars == <<site_folder, previous_csv, previous_dataframes, rerun, site_config>>
mainVars == <<sites, site_i, site_data, all_sites_data, analysed, mpc>>
fetchVars == <<provider, options, raw, site_csv, fpc>>
sourceVars == <<disk, cache, outcomes, site_sources, fetch_log, spc>>

(***************************************************************************)
(* Bounds of the model                                                     *)
(***************************************************************************)
MaxRows == 2        \* rows of an arbitrary daily table
MaxYears == 10      \* years of a long daily table (one row per year)
MaxFitLevel == 2    \* largest return level a fit yields
MaxLevel == 3       \* largest return level read from return_period_50y.csv
MaxSources == 3      \* sources with rows in return_period_50y.csv
MaxSites == 3       \* rows of the sites file
MaxObs == 3         \* observations a provider returns
MaxDays == 2        \* calendar days the observations span

(***************************************************************************)
(* Markers and program constants                                           *)
(***************************************************************************)
NaN == -1
NaT == 0
MinFitYears == 2
UncertainYears == 10
MinStatsValues == 5
Sentinel == 999
NoFactor == 0
Unbound == 0
DefaultThreshold == 25

\* the strings of the program, as sequences of characters
S_noaa == <<"n","o","a","a">>
S_meteostat1 == <<"m","e","t","e","o","s","t","a","t","1">>
S_meteostat2 == <<"m","e","t","e","o","s","t","a","t","2">>
S_noaa_station1 == <<"n","o","a","a","_","s","t","a","t","i","o","n","1">>
S_noaa_station2 == <<"n","o","a","a","_","s","t","a","t","i","o","n","2">>
S_openmeteo == <<"o","p","e","n","m","e","t","e","o">>
S_nasa_power == <<"n","a","s","a","_","p","o","w","e","r">>
S_era5 == <<"e","r","a","5">>
S_era5_daily == <<"e","r","a","5","_","d","a","i","l","y">>
S_site == <<"_","X">>

expected_prefixes ==
    << S_meteostat1, S_meteostat2, S_noaa_station1, S_noaa_station2,
       S_openmeteo, S_nasa_power, S_era5, S_era5_daily, S_noaa >>

Variables == << "windspeed_mean", "windspeed_gust" >>

\* str.startswith
StartsWith(s, p) == Len(s) >= Len(p) /\ SubSeq(s, 1, Len(p)) = p

SetMax(S) == CHOOSE x \in S : \A y \in S : y <= x
SetMin(S) == CHOOSE x \in S : \A y \in S : x <= y

(***************************************************************************)
(* DataFrames.  A DataFrame is [cols, rows]; a row is [year, mean, gust],  *)
(* the fields of a column that the table lacks are NaN and never read.     *)
(***************************************************************************)
HasCol(df, c) == c \in df.cols

\* df[varname] of one row
Cell(row, varname) == IF varname = "windspeed_mean" THEN row.mean ELSE row.gust

\* pd.read_csv followed by the harmonisation of the time and wind columns
Harmonise(file) ==
    LET c0 == file.cols
        c1 == IF "time" \in c0 THEN c0
              ELSE IF "date" \in c0 THEN (c0 \ {"date"}) \cup {"time"}
              ELSE c0
        c2 == IF "wind_speed" \in c1 /\ "windspeed_mean" \notin c1
              THEN (c1 \ {"wind_speed"}) \cup {"windspeed_mean"} ELSE c1
        c3 == IF "wind_gust" \in c2 /\ "windspeed_gust" \notin c2
              THEN (c2 \ {"wind_gust"}) \cup {"windspeed_gust"} ELSE c2
    IN [cols |-> c3, rows |-> file.rows]

\* the key of a file: the first expected prefix its stem starts with
IsExpected(stem) == \E k \in 1..Len(expected_prefixes) : StartsWith(stem, expected_prefixes[k])
KeyOf(stem) ==
    LET hits == {k \in 1..Len(expected_prefixes) : StartsWith(stem, expected_prefixes[k])}
    IN IF hits = {} THEN stem ELSE expected_prefixes[SetMin(hits)]

\* dataframes[key] = df on a dict that keeps insertion order
DictSet(d, key, df) ==
    IF \E k \in 1..Len(d) : d[k].key = key
    THEN [k \in 1..Len(d) |-> IF d[k].key = key THEN [key |-> key, df |-> df] ELSE d[k]]
    ELSE Append(d, [key |-> key, df |-> df])

Keys(d) == {d[k].key : k \in 1..Len(d)}

\* df[varname].dropna(): the non-missing values of a column
ValidValues(df, varname) ==
    LET Ok(r) == Cell(r, varname) # NaN IN SelectSeq(df.rows, Ok)

(***************************************************************************)
(* Series: a sequence of [year, val], the time-indexed values of one       *)
(* variable.                                                               *)
(***************************************************************************)
\* df.dropna(subset=[varname, "time"]), set_index("time"), df_clean[varname]
DropnaSubset(df, varname) ==
    LET Ok(r) == Cell(r, varname) # NaN /\ r.year # NaT IN SelectSeq(df.rows, Ok)

ToSeries(rows, varname) ==
    [k \in 1..Len(rows) |-> [year |-> rows[k].year, val |-> Cell(rows[k], varname)]]

\* series[(series > 0)]
KeepPositive(series) ==
    LET Ok(e) == e.val > 0 IN SelectSeq(series, Ok)

\* the series handed to export_annual_max and compute_return_level_50y
CleanSeries(df, varname) == KeepPositive(ToSeries(DropnaSubset(df, varname), varname))

\* "if name.startswith('noaa'): series = series.replace(999, np.nan).dropna()"
ReplaceSentinel(name, series) ==
    LET Ok(e) == e.val # Sentinel
    IN IF StartsWith(name, S_noaa) THEN SelectSeq(series, Ok) ELSE series

\* the series of one (source, variable) of the return-period pass
PassSeries(name, df, varname) == ReplaceSentinel(name, CleanSeries(df, varname))

\* dropna(subset=..., inplace=True): the stored table loses its incomplete rows
AfterCleaning_InPlace(d, k, varname) ==
    [j \in 1..Len(d) |->
        IF j = k THEN [key |-> d[j].key,
                       df |-> [cols |-> d[j].df.cols, rows |-> DropnaSubset(d[j].df, varname)]]
        ELSE d[j]]

\* dataframes after "df_clean = df.dropna(subset=[varname, 'time']).copy()": df_clean is a
\* new table, the assignment of its time column and set_index(inplace=True) change
\* the copy only
AfterCleaning(d, k, varname) == d

\* the series as it is, missing values kept
Dropna_Keep(series) == series

\* series.dropna()
Dropna(series) ==
    LET Ok(e) == e.val # NaN IN SelectSeq(series, Ok)

\* the smallest value of the yearly bin
YearMax_Min(series, y) ==
    LET vs == {series[k].val : k \in {j \in 1..Len(series) :
                                       series[j].year = y /\ series[j].val # NaN}}
    IN IF vs = {} THEN NaN ELSE SetMin(vs)

\* the aggregate of one yearly bin of resample('YE').max(): NaN for an empty bin
YearMax(series, y) ==
    LET vs == {series[k].val : k \in {j \in 1..Len(series) :
                                       series[j].year = y /\ series[j].val # NaN}}
    IN IF vs = {} THEN NaN ELSE SetMax(vs)

\* series.resample('YE').max(): one bin per calendar year from the first to the last
ResampleYEMax(series) ==
    IF series = <<>> THEN <<>>
    ELSE LET ys == {series[k].year : k \in 1..Len(series)}
             lo == SetMin(ys)
             hi == SetMax(ys)
         IN [k \in 1..(hi - lo + 1) |-> [year |-> lo + k - 1, val |-> YearMax(series, lo + k - 1)]]

\* annual_max of export_annual_max
AnnualMax(series) == Dropna(ResampleYEMax(series))

\* annual_max of compute_return_level_50y
FitSample(series) == Dropna(ResampleYEMax(Dropna(series)))

(***************************************************************************)
(* gumbel_r.fit and gumbel_r.ppf are library code: their outcome is an     *)
(* input of the model.  A fit raises, yields a finite return level, or     *)
(* (degenerate sample: all annual maxima identical, scale -> 0) yields a   *)
(* non-finite one.                                                         *)
(***************************************************************************)
None == [kind |-> "None", val |-> 0]
Num(x) == [kind |-> "num", val |-> x]
NanValue == [kind |-> "nan", val |-> 0]
NA == [kind |-> "N/A", val |-> 0]

Degenerate(sample) == \A j, k \in 1..Len(sample) : sample[j].val = sample[k].val

FitOutcomes(sample) ==
    {[kind |-> "raise", val |-> 0]}
    \cup {[kind |-> "finite", val |-> x] : x \in 1..MaxFitLevel}
    \cup (IF Degenerate(sample) THEN {[kind |-> "nonfinite", val |-> 0]} ELSE {})

\* compute_return_level_50y, given the outcome of the fit
compute_return_level_50y(series, fit) ==
    LET annual_max == FitSample(series)
    IN IF Len(annual_max) < MinFitYears THEN None
       ELSE IF fit.kind = "raise" THEN None
       ELSE IF fit.kind = "nonfinite" THEN NanValue
       ELSE Num(fit.val)

\* val_50y if val_50y is not None else "N/A"
RowValue(val_50y) == IF val_50y = None THEN NA ELSE val_50y

\* no source is left out
IsExcluded_Never(name) == FALSE

\* name.startswith("noaa"): the source is left out of the return-period pass
IsExcluded(name) == StartsWith(name, S_noaa)

(***************************************************************************)
(* run_analysis_for_site                                                   *)
(***************************************************************************)
\* section 1, one iteration of the loop over Path(site_folder).iterdir()
LoadFile ==
    /\ pc = "load"
    /\ \E f \in files :
        /\ files' = files \ {f}
        /\ dataframes' = IF IsExpected(f.stem)
                         THEN DictSet(dataframes, KeyOf(f.stem), Harmonise(f))
                         ELSE dataframes
    /\ UNCHANGED <<unwritable, pc, stats_summary, df_stats, skipped_sources, pos, results_50y,
                   exports, fitted>>
    /\ UNCHANGED <<cmpVars, rerunVars, mainVars, fetchVars, sourceVars>>

\* section 1, after the loop: "Aucun fichier CSV trouve. Analyse stoppee."
LoadEnd ==
    /\ pc = "load"
    /\ files = {}
    /\ pc' = IF dataframes = <<>> THEN "stopped" ELSE "stats"
    /\ UNCHANGED <<files, unwritable, dataframes, stats_summary, df_stats, skipped_sources, pos,
                   results_50y, exports, fitted>>
    /\ UNCHANGED <<cmpVars, rerunVars, mainVars, fetchVars, sourceVars>>

\* the sources of section 2 that get a row of descriptive statistics
HasStats(df) ==
    /\ HasCol(df, "windspeed_mean")
    /\ Len(ValidValues(df, "windspeed_mean")) >= MinStatsValues

\* valid_values.describe(): the count, the smallest and the largest value
describe(name, valid_values) ==
    LET vs == {valid_values[k].mean : k \in 1..Len(valid_values)}
    IN [source |-> name, count |-> Len(valid_values), min |-> SetMin(vs), max |-> SetMax(vs)]

\* section 2: descriptive statistics of windspeed_mean
DescriptiveStats ==
    /\ pc = "stats"
    /\ df_stats' = {describe(dataframes[k].key, ValidValues(dataframes[k].df, "windspeed_mean")) :
                        k \in {j \in 1..Len(dataframes) : HasStats(dataframes[j].df)}}
    /\ stats_summary' = {dataframes[k].key : k \in {j \in 1..Len(dataframes) :
                                                     HasStats(dataframes[j].df)}}
    /\ skipped_sources' = {dataframes[k].key : k \in {j \in 1..Len(dataframes) :
                                                       ~HasStats(dataframes[j].df)}}
    /\ pc' = "outliers"
    /\ UNCHANGED <<files, unwritable, dataframes, pos, results_50y, exports, fitted>>
    /\ UNCHANGED <<cmpVars, rerunVars, mainVars, fetchVars, sourceVars>>

\* process_outliers: the tables pd.concat receives; an empty list makes it raise
ConcatList(d, varname) ==
    {k \in 1..Len(d) : HasCol(d[k].df, varname) /\ ValidValues(d[k].df, varname) # <<>>}

\* sections 3 to 6: coverage and histograms keep no state; process_outliers is called
\* for windspeed_mean and then for windspeed_gust
Outliers ==
    /\ pc = "outliers"
    /\ pc' = IF \E v \in 1..Len(Variables) : ConcatList(dataframes, Variables[v]) = {}
             THEN "raised in process_outliers" ELSE "rp"
    /\ pos' = <<1, 1>>
    /\ UNCHANGED <<files, unwritable, dataframes, stats_summary, df_stats, skipped_sources,
                   results_50y, exports, fitted>>
    /\ UNCHANGED <<cmpVars, rerunVars, mainVars, fetchVars, sourceVars>>

\* the next (source, variable) of the two nested loops of section 12
NextPos(p) == IF p[2] = Len(Variables) THEN <<p[1] + 1, 1>> ELSE <<p[1], p[2] + 1>>

InPass == pc = "rp" /\ pos[1] <= Len(dataframes)
CurName == dataframes[pos[1]].key
CurDf == dataframes[pos[1]].df
CurVar == Variables[pos[2]]
\* bc_mean_threshold and bc_gust_threshold:
\* "float(site_config.get(<column>, 25)) or 25", 25 when float() raises
Threshold(cell) ==
    CASE cell.kind = "absent" -> DefaultThreshold
      [] cell.kind = "text" -> DefaultThreshold
      [] cell.kind = "nan" -> NaN
      [] cell.kind = "num" -> IF cell.val = 0 THEN DefaultThreshold ELSE cell.val

CurThreshold == Threshold(site_config[CurVar])

\* the columns the pass needs: "if varname not in df.columns or 'time' not in df.columns"
HasColumns(df, varname) == HasCol(df, varname) /\ HasCol(df, "time")

\* the emptiness test left out
NothingToFit_Never(series) == FALSE

\* "if series.empty" (and "if df_clean.empty"): nothing is exported or fitted
NothingToFit(series) == series = <<>>

ResultRow(name, varname, val_50y, bc_threshold) ==
    [Source |-> name, Variable |-> varname, Return_Period_50y |-> RowValue(val_50y),
     Seuil_BuildingCode |-> bc_threshold]

\* section 12: "if name.startswith('noaa'): continue"
RpSkipSource ==
    /\ InPass
    /\ IsExcluded(CurName)
    /\ pos' = <<pos[1] + 1, 1>>
    /\ UNCHANGED <<files, unwritable, dataframes, pc, stats_summary, df_stats, skipped_sources,
                   results_50y, exports, fitted>>
    /\ UNCHANGED <<cmpVars, rerunVars, mainVars, fetchVars, sourceVars>>

\* section 12: the variable's column or the time column is missing: continue
RpSkipVariable ==
    /\ InPass
    /\ ~IsExcluded(CurName)
    /\ ~HasColumns(CurDf, CurVar)
    /\ pos' = NextPos(pos)
    /\ UNCHANGED <<files, unwritable, dataframes, pc, stats_summary, df_stats, skipped_sources,
                   results_50y, exports, fitted>>
    /\ UNCHANGED <<cmpVars, rerunVars, mainVars, fetchVars, sourceVars>>

\* section 12: df_clean or series is empty: val_50y = None, the row is appended
RpUnavailable ==
    /\ InPass
    /\ ~IsExcluded(CurName)
    /\ HasColumns(CurDf, CurVar)
    /\ NothingToFit(PassSeries(CurName, CurDf, CurVar))
    /\ results_50y' = Append(results_50y, ResultRow(CurName, CurVar, None, CurThreshold))
    /\ pos' = NextPos(pos)
    /\ dataframes' = AfterCleaning(dataframes, pos[1], CurVar)
    /\ UNCHANGED <<files, unwritable, pc, stats_summary, df_stats, skipped_sources,
                   exports, fitted>>
    /\ UNCHANGED <<cmpVars, rerunVars, mainVars, fetchVars, sourceVars>>

\* section 12: df_export.to_csv of export_annual_max raises; nothing catches it
RpExportRaises ==
    /\ InPass
    /\ ~IsExcluded(CurName)
    /\ HasColumns(CurDf, CurVar)
    /\ ~NothingToFit(PassSeries(CurName, CurDf, CurVar))
    /\ <<CurName, CurVar>> \in unwritable
    /\ pc' = "raised in export_annual_max"
    /\ dataframes' = AfterCleaning(dataframes, pos[1], CurVar)
    /\ UNCHANGED <<files, unwritable, stats_summary, df_stats, skipped_sources, pos,
                   results_50y, exports, fitted>>
    /\ UNCHANGED <<cmpVars, rerunVars, mainVars, fetchVars, sourceVars>>

\* section 12: export_annual_max, compute_return_level_50y, results_50y.append
RpEstimate ==
    /\ InPass
    /\ ~IsExcluded(CurName)
    /\ HasColumns(CurDf, CurVar)
    /\ ~NothingToFit(PassSeries(CurName, CurDf, CurVar))
    /\ <<CurName, CurVar>> \notin unwritable
    /\ LET series == PassSeries(CurName, CurDf, CurVar)
           sample == FitSample(series)
       IN /\ exports' = Append(exports, [name |-> CurName, var |-> CurVar,
                                         rows |-> AnnualMax(series)])
          /\ \/ /\ Len(sample) < MinFitYears
                /\ fitted' = fitted
                /\ results_50y' = Append(results_50y,
                       ResultRow(CurName, CurVar, compute_return_level_50y(series, None),
                                 CurThreshold))
             \/ /\ Len(sample) >= MinFitYears
                /\ \E fit \in FitOutcomes(sample) :
                     /\ fitted' = Append(fitted, [name |-> CurName, var |-> CurVar,
                                                  sample |-> sample, fit |-> fit.kind])
                     /\ results_50y' = Append(results_50y,
                            ResultRow(CurName, CurVar, compute_return_level_50y(series, fit),
                                      CurThreshold))
    /\ pos' = NextPos(pos)
    /\ dataframes' = AfterCleaning(dataframes, pos[1], CurVar)
    /\ UNCHANGED <<files, unwritable, pc, stats_summary, df_stats, skipped_sources>>
    /\ UNCHANGED <<cmpVars, rerunVars, mainVars, fetchVars, sourceVars>>

\* section 12, after the loops: return_period_50y.csv is written
RpEnd ==
    /\ pc = "rp"
    /\ pos[1] > Len(dataframes)
    /\ pc' = "done"
    /\ UNCHANGED <<files, unwritable, dataframes, stats_summary, df_stats, skipped_sources, pos,
                   results_50y, exports, fitted>>
    /\ UNCHANGED <<cmpVars, rerunVars, mainVars, fetchVars, sourceVars>>

(***************************************************************************)
(* The site folders the analysis is run on                                 *)
(***************************************************************************)
FullCols == {"time", "windspeed_mean", "windspeed_gust"}

SpeedValues == {NaN} \cup 0..2
SmallYears == 1..3

\* an arbitrary daily table: any rows, in any order, several per year, gust = mean
SmallRow == {[year |-> y, mean |-> v, gust |-> v] : y \in SmallYears, v \in SpeedValues}
SmallRows == UNION {[1..n -> SmallRow] : n \in 0..MaxRows}

\* a long daily table: one row per year 1..n; each column follows a pattern
ColumnKinds == {"absent", "nan", "zero", "const", "alt", "gap"}
KindValue(kind, y) ==
    CASE kind = "absent" -> NaN
      [] kind = "nan" -> NaN
      [] kind = "zero" -> 0
      [] kind = "const" -> 1
      [] kind = "alt" -> 1 + (y % 2)
      [] kind = "gap" -> IF y = 2 THEN NaN ELSE 1 + (y % 2)
      [] kind = "sentinel" -> IF y = 1 THEN Sentinel ELSE 1 + (y % 2)

TimeKinds == {"time", "date", "absent", "nat"}

LongCols(meanKind, gustKind, timeKind) ==
    (IF meanKind = "absent" THEN {} ELSE {"windspeed_mean"})
    \cup (IF gustKind = "absent" THEN {} ELSE {"windspeed_gust"})
    \cup (IF timeKind = "absent" THEN {} ELSE IF timeKind = "date" THEN {"date"} ELSE {"time"})

LongRows(n, meanKind, gustKind, timeKind) ==
    [y \in 1..n |-> [year |-> IF timeKind = "nat" THEN NaT ELSE y,
                     mean |-> KindValue(meanKind, y),
                     gust |-> KindValue(gustKind, y)]]

File(stem, cols, rows) == [stem |-> stem \o S_site, cols |-> cols, rows |-> rows]

\* a one-day table with both variables: its sample is too short for a fit
Companion(stem) == File(stem, FullCols, <<[year |-> 1, mean |-> 1, gust |-> 1]>>)

\* the raw NOAA table of fetch_isd_series(return_raw=True): date, wind_speed, windspeed_gust
NoaaFile(stem, n) ==
    File(stem, {"date", "wind_speed", "windspeed_gust"},
         [k \in 1..n |-> [year |-> 1, mean |-> 1, gust |-> 1]])

\* a file of the folder that is no source table
OtherFile == [stem |-> <<"s","i","t","e","s">>, cols |-> {"name"}, rows |-> <<>>]

InitCmpIdle ==
    /\ cpc = "idle"
    /\ rp_csv = <<>>
    /\ building_code = 0
    /\ df_mean = <<>>
    /\ ecarts = <<>>
    /\ nb_depassements = 0
    /\ phrase = [kind |-> "-", tendance |-> "-", ecart_min |-> 0, ecart_max |-> 0]

InitMainIdle ==
    /\ sites = <<>>
    /\ site_i = 1
    /\ site_data = Unbound
    /\ all_sites_data = <<>>
    /\ analysed = <<>>
    /\ mpc = "idle"

InitFetchIdle ==
    /\ provider = "-"
    /\ options = [mean_correction_factor |-> NoFactor, gust_correction_factor |-> NoFactor]
    /\ raw = <<>>
    /\ site_csv = <<>>
    /\ fpc = "idle"

\* a building-code cell of the sites file as load_sites_from_csv returns it: no such
\* column, an empty cell (NaN), a number, or a text that is no number
ConfigCells ==
    {[kind |-> k, val |-> 0] : k \in {"absent", "nan", "text"}}
    \cup {[kind |-> "num", val |-> v] : v \in {0, 30}}

Configs == [{"windspeed_mean", "windspeed_gust"} -> ConfigCells]

\* a sites file without building-code columns
NoConfig == [v \in {"windspeed_mean", "windspeed_gust"} |-> [kind |-> "absent", val |-> 0]]

\* the sources main looks for in the site folder before it calls a provider
SourceKeys == {"meteostat1", "meteostat2", "openmeteo", "nasa_power", "era5"}

\* no file, or no entry of a dict
NoFile == [origin |-> "-", version |-> "-"]

InitSourcesIdle ==
    /\ disk = [k \in SourceKeys |-> NoFile]
    /\ cache = [k \in SourceKeys |-> NoFile]
    /\ outcomes = [k \in SourceKeys |-> "ok"]
    /\ site_sources = [k \in SourceKeys |-> NoFile]
    /\ fetch_log = {}
    /\ spc = "idle"

InitRun ==
    /\ dataframes = <<>>
    /\ pc = "load"
    /\ stats_summary = {}
    /\ df_stats = {}
    /\ skipped_sources = {}
    /\ pos = <<1, 1>>
    /\ results_50y = <<>>
    /\ exports = <<>>
    /\ fitted = <<>>

\* one source with an arbitrary daily table
InitSmall ==
    /\ \E rows \in SmallRows : files = {File(S_meteostat1, FullCols, rows)}
    /\ unwritable = {}

\* a source with a long table and a companion
InitLong ==
    /\ \E n \in 0..MaxYears, mk \in ColumnKinds, gk \in {"absent", "zero", "const", "alt"},
          tk \in TimeKinds :
         files = {File(S_openmeteo, LongCols(mk, gk, tk), LongRows(n, mk, gk, tk)),
                  Companion(S_meteostat1)}
    /\ unwritable = {}

\* model sources, a NOAA station, a foreign file, and an annual-maxima file that
\* cannot be written
InitMixed ==
    /\ \E k \in {MinStatsValues - 1, MinStatsValues}, others \in SUBSET {OtherFile} :
         files = {File(S_openmeteo, FullCols, LongRows(MinFitYears, "alt", "alt", "time")),
                  Companion(S_era5), NoaaFile(S_noaa_station1, k)} \cup others
    /\ unwritable \in {{}} \cup {{<<s, v>>} : s \in {S_openmeteo, S_era5},
                                             v \in {"windspeed_mean", "windspeed_gust"}}

\* no source has a windspeed_gust column
InitNoGust ==
    /\ \E n \in {1, MinStatsValues} :
         files = {File(S_openmeteo, {"time", "windspeed_mean"},
                       LongRows(n, "alt", "absent", "time")),
                  File(S_meteostat1, {"time", "windspeed_mean"},
                       LongRows(1, "const", "absent", "time"))}
    /\ unwritable = {}

\* the folder of the site whose building-code cells vary
ConfigFolder == {Companion(S_nasa_power)}

InitConfig ==
    /\ files = ConfigFolder
    /\ unwritable = {}

\* a source whose provider writes 999 for a missing value
InitSentinel ==
    /\ files = {File(S_nasa_power, FullCols,
                     LongRows(MinStatsValues, "sentinel", "sentinel", "time")),
                Companion(S_meteostat1)}
    /\ unwritable = {}

(***************************************************************************)
(* global_comparator: one site of main                                     *)
(***************************************************************************)
\* str.lower on the characters that occur in source names
LowerChar(c) ==
    CASE c = "N" -> "n" [] c = "O" -> "o" [] c = "A" -> "a" [] OTHER -> c
Lower(s) == [k \in 1..Len(s) |-> LowerChar(s[k])]

\* pd.read_csv: "N/A" and the empty cell of a NaN are read as missing
IsMissing(value) == value.kind # "num"

\* load_return_data: the windspeed_mean rows of the sources that are not NOAA, without
\* the rows whose return level is missing
load_return_data(csv) ==
    LET Keep(r) == /\ r.Variable = "windspeed_mean"
                   /\ ~StartsWith(Lower(r.Source), S_noaa)
                   /\ ~IsMissing(r.Return_Period_50y)
        kept == SelectSeq(csv, Keep)
    IN [k \in 1..Len(kept) |-> [Source |-> kept[k].Source,
                                windspeed_mean_50y |-> kept[k].Return_Period_50y.val]]

\* a return level equal to the threshold counted as an exceedance
Exceeds_OrEqual(observed, building_code_value) == observed >= building_code_value

\* "if observed > building_code_value"
Exceeds(observed, building_code_value) == observed > building_code_value

RECURSIVE CompareLoop(_, _, _, _, _)
\* the loop of compare_sources_to_building_code from row k on
CompareLoop(df, building_code_value, k, acc_ecarts, acc_nb) ==
    IF k > Len(df) THEN [ecarts |-> acc_ecarts, nb_depassements |-> acc_nb]
    ELSE LET observed == df[k].windspeed_mean_50y
             ecart == observed - building_code_value
         IN CompareLoop(df, building_code_value, k + 1, Append(acc_ecarts, ecart),
                        IF Exceeds(observed, building_code_value) THEN acc_nb + 1 ELSE acc_nb)

compare_sources_to_building_code(df, building_code_value) ==
    CompareLoop(df, building_code_value, 1, <<>>, 0)

\* ratio_depassement > 0.5
AtLeastHalf_Strict(num, den) == 2 * num > den

\* ratio_depassement >= 0.5, the ratio kept as the fraction num / den
AtLeastHalf(num, den) == 2 * num >= den

\* generate_analysis_sentence: min(ecarts) raises on an empty list
generate_analysis_sentence(ecarts_, nb_dep, nb_sources) ==
    IF ecarts_ = <<>> THEN [kind |-> "raise", tendance |-> "-", ecart_min |-> 0, ecart_max |-> 0]
    ELSE IF nb_sources = 0
    THEN [kind |-> "aucune source", tendance |-> "-", ecart_min |-> 0, ecart_max |-> 0]
    ELSE LET es == {ecarts_[k] : k \in 1..Len(ecarts_)}
             tendance == IF nb_dep = 0 THEN "surdimensionnement"
                         ELSE IF AtLeastHalf(nb_dep, nb_sources) THEN "sous-estimation"
                         ELSE "a surveiller"
         IN [kind |-> "phrase", tendance |-> tendance,
             ecart_min |-> SetMin(es), ecart_max |-> SetMax(es)]

\* main: building code missing, or no valid row: "Site ignore"
CmpLoad ==
    /\ cpc = "start"
    /\ IF building_code = NaN
       THEN /\ cpc' = "skipped"
            /\ df_mean' = df_mean
       ELSE /\ df_mean' = load_return_data(rp_csv)
            /\ cpc' = IF df_mean' = <<>> THEN "skipped" ELSE "loaded"
    /\ UNCHANGED <<rp_csv, building_code, ecarts, nb_depassements, phrase>>
    /\ UNCHANGED <<analysisVars, rerunVars, mainVars, fetchVars, sourceVars>>

CmpCompare ==
    /\ cpc = "loaded"
    /\ LET r == compare_sources_to_building_code(df_mean, building_code)
       IN /\ ecarts' = r.ecarts
          /\ nb_depassements' = r.nb_depassements
    /\ cpc' = "compared"
    /\ UNCHANGED <<rp_csv, building_code, df_mean, phrase>>
    /\ UNCHANGED <<analysisVars, rerunVars, mainVars, fetchVars, sourceVars>>

CmpSentence ==
    /\ cpc = "compared"
    /\ phrase' = generate_analysis_sentence(ecarts, nb_depassements, Len(ecarts))
    /\ cpc' = "reported"
    /\ UNCHANGED <<rp_csv, building_code, df_mean, ecarts, nb_depassements>>
    /\ UNCHANGED <<analysisVars, rerunVars, mainVars, fetchVars, sourceVars>>

\* the return_period_50y.csv files read: per source a windspeed_mean row and a
\* windspeed_gust row, then possibly rows of a NOAA station
CmpSources == <<S_openmeteo, S_era5, S_nasa_power, S_meteostat1, S_meteostat2>>
CsvValues == {NA} \cup {Num(x) : x \in 1..MaxLevel}
CodeValues == {NaN, 2}

CsvRow(source, varname, value) ==
    [Source |-> source, Variable |-> varname, Return_Period_50y |-> value]

RECURSIVE CsvFiles(_)
\* the files with rows for a subset of the first n sources
CsvFiles(n) ==
    IF n = 0 THEN {<<>>}
    ELSE LET rest == CsvFiles(n - 1)
         IN rest \cup {f \o <<CsvRow(CmpSources[n], "windspeed_mean", m),
                                CsvRow(CmpSources[n], "windspeed_gust", g)>> :
                          f \in rest, m \in CsvValues, g \in {NA, Num(MaxLevel)}}

NoaaRows == {<<>>, <<CsvRow(S_noaa_station1, "windspeed_mean", Num(MaxLevel))>>,
             <<CsvRow(<<"N","O","A","A">>, "windspeed_mean", Num(MaxLevel))>>}

InitCmp ==
    /\ files = {}
    /\ unwritable = {}
    /\ dataframes = <<>>
    /\ pc = "idle"
    /\ stats_summary = {}
    /\ df_stats = {}
    /\ skipped_sources = {}
    /\ pos = <<1, 1>>
    /\ results_50y = <<>>
    /\ exports = <<>>
    /\ fitted = <<>>
    /\ cpc = "start"
    /\ \E f \in CsvFiles(MaxSources), t \in NoaaRows : rp_csv = f \o t
    /\ building_code \in CodeValues
    /\ df_mean = <<>>
    /\ ecarts = <<>>
    /\ nb_depassements = 0
    /\ phrase = [kind |-> "-", tendance |-> "-", ecart_min |-> 0, ecart_max |-> 0]
    /\ site_folder = {}
    /\ previous_csv = <<>>
    /\ previous_dataframes = <<>>
    /\ site_config = NoConfig
    /\ rerun = FALSE
    /\ InitMainIdle
    /\ InitFetchIdle
    /\ InitSourcesIdle

NextCmp ==
    \/ CmpLoad
    \/ CmpCompare
    \/ CmpSentence

SpecCmp == InitCmp /\ [][NextCmp]_vars

\* generate_analysis_sentence called on its own: any list of deviations, the empty one
\* included, any number of exceedances, nb_sources = len(ecarts)
InitSentence ==
    /\ InitRun
    /\ files = {}
    /\ unwritable = {}
    /\ cpc = "compared"
    /\ rp_csv = <<>>
    /\ building_code \in CodeValues \ {NaN}
    /\ df_mean = <<>>
    /\ ecarts \in UNION {[1..n -> {-1, 0, 1}] : n \in 0..MaxSources}
    /\ nb_depassements \in 0..Len(ecarts)
    /\ phrase = [kind |-> "-", tendance |-> "-", ecart_min |-> 0, ecart_max |-> 0]
    /\ site_folder = {}
    /\ previous_csv = <<>>
    /\ previous_dataframes = <<>>
    /\ site_config = NoConfig
    /\ rerun = FALSE
    /\ InitMainIdle
    /\ InitFetchIdle
    /\ InitSourcesIdle

NextSentence == CmpSentence

SpecSentence == InitSentence /\ [][NextSentence]_vars

Init ==
    /\ InitRun
    /\ InitCmpIdle
    /\ InitMainIdle
    /\ InitFetchIdle
    /\ InitSourcesIdle
    /\ \/ InitSmall
       \/ InitLong
       \/ InitMixed
       \/ InitNoGust
       \/ InitSentinel
       \/ InitConfig
       \/ files = {} /\ unwritable = {}
    /\ site_folder = files
    /\ site_config \in (IF files = ConfigFolder THEN Configs ELSE {NoConfig})
    /\ previous_csv = <<>>
    /\ previous_dataframes = <<>>
    /\ rerun = FALSE

Next ==
    \/ LoadFile
    \/ LoadEnd
    \/ DescriptiveStats
    \/ Outliers
    \/ RpSkipSource
    \/ RpSkipVariable
    \/ RpUnavailable
    \/ RpExportRaises
    \/ RpEstimate
    \/ RpEnd

Spec == Init /\ [][Next]_vars

(***************************************************************************)
(* The analysis run twice on one site folder                               *)
(***************************************************************************)
\* run_analysis_for_site is called again on the folder: every local starts anew, the
\* folder is listed again
Rerun ==
    /\ pc = "done"
    /\ ~rerun
    /\ rerun' = TRUE
    /\ previous_csv' = results_50y
    /\ previous_dataframes' = dataframes
    /\ files' = site_folder
    /\ dataframes' = <<>>
    /\ pc' = "load"
    /\ stats_summary' = {}
    /\ df_stats' = {}
    /\ skipped_sources' = {}
    /\ pos' = <<1, 1>>
    /\ results_50y' = <<>>
    /\ exports' = <<>>
    /\ fitted' = <<>>
    /\ UNCHANGED <<unwritable, site_folder, site_config>>
    /\ UNCHANGED <<cmpVars, mainVars, fetchVars, sourceVars>>

\* era5_daily_<site>.csv, the daily table that save_era5_data writes next to the
\* hourly era5_<site>.csv
DailyCompanion == File(S_era5_daily, FullCols, <<[year |-> 1, mean |-> 2, gust |-> 2]>>)

\* a folder with model sources, a NOAA station, a column without a valid value and
\* possibly a missing column and the daily ERA5 file
InitRerun ==
    /\ InitRun
    /\ InitCmpIdle
    /\ InitMainIdle
    /\ InitFetchIdle
    /\ InitSourcesIdle
    /\ \E mk \in {"absent", "alt"}, daily \in SUBSET {DailyCompanion} :
         files = {File(S_openmeteo, LongCols(mk, "zero", "time"),
                       LongRows(MinFitYears, mk, "zero", "time")),
                  Companion(S_era5), NoaaFile(S_noaa_station1, 1)}
                 \cup daily
    /\ unwritable \in {{}, {<<S_era5, "windspeed_gust">>}}
    /\ site_folder = files
    /\ previous_csv = <<>>
    /\ previous_dataframes = <<>>
    /\ site_config = NoConfig
    /\ rerun = FALSE

NextRerun ==
    \/ Next
    \/ Rerun

SpecRerun == InitRerun /\ [][NextRerun]_vars

(***************************************************************************)
(* script.main: the loop over the sites                                    *)
(***************************************************************************)
\* how run_analysis_for_site ends on a folder: stopped after the loading loop when no
\* file gives a table, raised by process_outliers when a variable has no source with
\* data, done otherwise
AnalysisOutcome(folder) ==
    LET tables == {Harmonise(f) : f \in {g \in folder : IsExpected(g.stem)}}
    IN IF tables = {} THEN "stopped"
       ELSE IF \E v \in 1..Len(Variables) : \A df \in tables :
                   ~(HasCol(df, Variables[v]) /\ ValidValues(df, Variables[v]) # <<>>)
       THEN "raised in process_outliers"
       ELSE "done"

Raised(outcome) == outcome \notin {"stopped", "done"}

\* main after "run_analysis_for_site(name, site_folder, site, dataframes)": the call is
\* in no try block, an exception leaves main
AfterAnalysis(outcome) == IF Raised(outcome) THEN "raised" ELSE "loop"

\* one iteration of "for site in sites"
MainSite ==
    /\ mpc = "loop"
    /\ site_i <= Len(sites)
    /\ LET site == sites[site_i]
           outcome == AnalysisOutcome(site.folder)
           after == IF site.already_processed THEN "loop" ELSE AfterAnalysis(outcome)
           data == IF site.already_processed \/ after = "raised" THEN site_data
                   ELSE site.name
       IN /\ analysed' = IF site.already_processed THEN analysed
                          ELSE Append(analysed, [site |-> site.name, outcome |-> outcome])
          /\ site_data' = data
          /\ IF after = "raised" THEN /\ mpc' = "raised"
                                       /\ all_sites_data' = all_sites_data
             ELSE IF data = Unbound THEN /\ mpc' = "raised"
                                           /\ all_sites_data' = all_sites_data
             ELSE /\ mpc' = "loop"
                  /\ all_sites_data' = Append(all_sites_data, data)
    /\ site_i' = site_i + 1
    /\ UNCHANGED sites
    /\ UNCHANGED <<analysisVars, cmpVars, rerunVars, fetchVars, sourceVars>>

\* after the loop: the visualisations
MainEnd ==
    /\ mpc = "loop"
    /\ site_i > Len(sites)
    /\ mpc' = "done"
    /\ UNCHANGED <<sites, site_i, site_data, all_sites_data, analysed>>
    /\ UNCHANGED <<analysisVars, cmpVars, rerunVars, fetchVars, sourceVars>>

\* the folder of a site once the sources are fetched: no file (every fetch failed),
\* sources without gusts, or sources with both variables
SiteFolders ==
    { {},
      {File(S_openmeteo, {"time", "windspeed_mean"}, LongRows(1, "const", "absent", "time"))},
      {Companion(S_openmeteo), Companion(S_meteostat1)} }

SiteLists(n) ==
    {l \in [1..n -> [name : 1..n, folder : SiteFolders, already_processed : BOOLEAN]] :
        \A k \in 1..n : l[k].name = k}

InitMain ==
    /\ InitRun
    /\ pc = "load"
    /\ files = {}
    /\ unwritable = {}
    /\ InitCmpIdle
    /\ InitFetchIdle
    /\ InitSourcesIdle
    /\ site_folder = {}
    /\ previous_csv = <<>>
    /\ previous_dataframes = <<>>
    /\ site_config = NoConfig
    /\ rerun = FALSE
    /\ sites \in UNION {SiteLists(n) : n \in 0..MaxSites}
    /\ site_i = 1
    /\ site_data = Unbound
    /\ all_sites_data = <<>>
    /\ analysed = <<>>
    /\ mpc = "loop"

NextMain ==
    \/ MainSite
    \/ MainEnd

SpecMain == InitMain /\ [][NextMain]_vars

(***************************************************************************)
(* The fetchers.  A value of a fetched table is a fraction [n, d] in lowest *)
(* terms, d > 0; QNaN is the missing value.  An observation of a provider   *)
(* is [day, speed, gust, dir] in the provider's units, NaN where missing.   *)
(* np.sqrt and np.arctan2 are library code: an ERA5 observation carries    *)
(* sqrt(u10^2 + v10^2) as speed and arctan2(u10, v10) in degrees as dir.    *)
(***************************************************************************)
RECURSIVE GCD(_, _)
GCD(a, b) == IF b = 0 THEN a ELSE GCD(b, a % b)

Q(n, d) == LET g == GCD(IF n < 0 THEN -n ELSE n, d) IN [n |-> n \div g, d |-> d \div g]
QNaN == [n |-> 0, d |-> 0]
IsNaN(q) == q.d = 0
FromRaw(x) == IF x = NaN THEN QNaN ELSE Q(x, 1)
QMul(a, b) == IF IsNaN(a) \/ IsNaN(b) THEN QNaN ELSE Q(a.n * b.n, a.d * b.d)
QLess(a, b) == a.n * b.d < b.n * a.d

\* Series.max(): the largest value that is not missing, NaN when there is none
QMax(values) ==
    LET S == {values[k] : k \in {j \in 1..Len(values) : ~IsNaN(values[j])}}
    IN IF S = {} THEN QNaN ELSE CHOOSE x \in S : \A y \in S : ~QLess(x, y)

RECURSIVE QSum(_)
QSum(values) ==
    IF values = <<>> THEN Q(0, 1)
    ELSE LET h == Head(values)
             t == QSum(Tail(values))
         IN Q(h.n * t.d + t.n * h.d, h.d * t.d)

\* Series.mean(): the mean of the values that are not missing
QMean(values) ==
    LET Ok(v) == ~IsNaN(v)
        kept == SelectSeq(values, Ok)
    IN IF kept = <<>> THEN QNaN ELSE QMul(QSum(kept), Q(1, Len(kept)))

\* the factor applied twice
TenMinFactor_Twice == Q(121, 100)

\* "* 1.10": hourly mean to 10-minute mean
TenMinFactor == Q(11, 10)

\* conversion_manager.apply_10min_equivalent
apply_10min_equivalent(ws, source) ==
    IF source \in {"meteostat", "noaa"} THEN ws
    ELSE IF source \in {"era5", "nasa_power", "openmeteo"} THEN QMul(ws, Q(11, 10))
    ELSE ws

\* the speed left in km/h
KmhToMs_Skip(x) == FromRaw(x)

\* "df['wspd'].astype(float) / 3.6"
KmhToMs(x) == QMul(FromRaw(x), Q(10, 36))

\* the calendar days of the observations, ascending (groupby("date"))
GroupDays(obs) ==
    LET ds == {obs[k].day : k \in 1..Len(obs)}
    IN [k \in 1..Cardinality(ds) |-> CHOOSE d \in ds : Cardinality({e \in ds : e < d}) = k - 1]

\* the calendar days from the first to the last (resample("D"))
AllDays(obs) ==
    LET ds == {obs[k].day : k \in 1..Len(obs)}
    IN IF ds = {} THEN <<>> ELSE [k \in 1..(SetMax(ds) - SetMin(ds) + 1) |-> SetMin(ds) + k - 1]

OfDay(obs, d) == LET Ok(o) == o.day = d IN SelectSeq(obs, Ok)

Column(rows, F(_)) == [k \in 1..Len(rows) |-> F(rows[k])]

\* np.cos and np.sin of np.deg2rad(wdir) for the directions 0 and 90
DirU(o) == IF o.dir = NaN THEN QNaN ELSE IF o.dir = 0 THEN Q(1, 1) ELSE Q(0, 1)
DirV(o) == IF o.dir = NaN THEN QNaN ELSE IF o.dir = 90 THEN Q(1, 1) ELSE Q(0, 1)

\* np.rad2deg(np.arctan2(v, u)) for u >= 0, v >= 0, rounded to the degree
Atan2Deg(v, u) ==
    IF IsNaN(v) \/ IsNaN(u) THEN NaN
    ELSE LET y == v.n * u.d
             x == u.n * v.d
         IN CASE y = 0 -> 0
              [] x = 0 -> 90
              [] y = x -> 45
              [] 2 * y = x -> 27
              [] y = 2 * x -> 63
              [] 3 * y = x -> 18
              [] y = 3 * x -> 72
              [] 4 * y = x -> 14
              [] y = 4 * x -> 76
              [] 3 * y = 2 * x -> 34
              [] 2 * y = 3 * x -> 56

GustFallback_Always(windspeed_gust, windspeed_mean, factor) ==
    IF factor # NoFactor THEN QMul(windspeed_mean, Q(factor, 1)) ELSE windspeed_gust

\* "daily_df.loc[mask_nan, 'windspeed_gust'] = daily_df.loc[mask_nan, 'windspeed_mean'] * factor"
\* when gust_correction_factor is not None
GustFallback(windspeed_gust, windspeed_mean, factor) ==
    IF factor # NoFactor /\ IsNaN(windspeed_gust)
    THEN QMul(windspeed_mean, Q(factor, 1))
    ELSE windspeed_gust

\* _fetch_meteostat_daily_for_station: the daily table of one station
meteostat_daily(obs, opt) ==
    LET Speed(o) == KmhToMs(o.speed)
        Gust(o) == KmhToMs(o.gust)
        Row(d) ==
            LET day == OfDay(obs, d)
                daily_speed_max == QMax(Column(day, Speed))
                daily_gust_max == QMax(Column(day, Gust))
                deg == Atan2Deg(QMean(Column(day, DirV)), QMean(Column(day, DirU)))
                mean == IF opt.mean_correction_factor # NoFactor
                        THEN QMul(daily_speed_max, Q(opt.mean_correction_factor, 1))
                        ELSE daily_speed_max
                gust == GustFallback(daily_gust_max, mean, opt.gust_correction_factor)
            IN [day |-> d, hour |-> 0, mean |-> mean, gust |-> gust,
                dir |-> IF deg = NaN THEN QNaN ELSE Q((deg + 360) % 360, 1)]
        days == GroupDays(obs)
    IN [k \in 1..Len(days) |-> Row(days[k])]

\* fetch_openmeteo_data: the daily table
openmeteo_daily(obs) ==
    LET Speed(o) == FromRaw(o.speed)
        Gust(o) == FromRaw(o.gust)
        Dir(o) == FromRaw(o.dir)
        Row(d) ==
            LET day == OfDay(obs, d)
            IN [day |-> d, hour |-> 0,
                mean |-> QMul(QMean(Column(day, Speed)), TenMinFactor),
                gust |-> QMax(Column(day, Gust)),
                dir |-> QMean(Column(day, Dir))]
        days == GroupDays(obs)
    IN [k \in 1..Len(days) |-> Row(days[k])]

\* read_era5_csv: the hourly table, the rows with a missing component dropped
read_era5_csv(obs) ==
    LET Ok(o) == o.speed # NaN /\ o.dir # NaN
        kept == SelectSeq(obs, Ok)
    IN [k \in 1..Len(kept) |->
          [day |-> kept[k].day, hour |-> k,
           mean |-> QMul(FromRaw(kept[k].speed), TenMinFactor),
           gust |-> QNaN,
           dir |-> Q((kept[k].dir + 180) % 360, 1)]]

\* save_era5_data: df_final.set_index("time").resample("D").agg(...)
era5_daily(df_final) ==
    LET Mean(r) == r.mean
        Dir(r) == r.dir
        Row(d) ==
            LET day == OfDay(df_final, d)
            IN [day |-> d, hour |-> 0, mean |-> QMax(Column(day, Mean)), gust |-> QNaN,
                dir |-> QMean(Column(day, Dir))]
        days == AllDays(df_final)
    IN [k \in 1..Len(days) |-> Row(days[k])]

\* fetch_nasa_power_data: the daily values of the provider
nasa_power_daily(obs) ==
    [k \in 1..Len(obs) |->
        [day |-> obs[k].day, hour |-> 0,
         mean |-> QMul(FromRaw(obs[k].speed), TenMinFactor),
         gust |-> FromRaw(obs[k].gust), dir |-> FromRaw(obs[k].dir)]]

\* Series.mask(cond): missing where the condition holds
Mask(q, cond) == IF IsNaN(q) \/ cond THEN QNaN ELSE q

\* fetch_isd_series(return_raw=True): full_df, one row per observation
fetch_isd_series_raw(obs) ==
    [k \in 1..Len(obs) |->
        LET wind_speed == QMul(FromRaw(obs[k].speed), Q(1, 10))
            gust == QMul(FromRaw(obs[k].gust), Q(1, 10))
            direction == FromRaw(obs[k].dir)
        IN [day |-> obs[k].day, hour |-> 0,
            mean |-> Mask(wind_speed, QLess(Q(100, 1), wind_speed) \/ QLess(wind_speed, Q(0, 1))),
            gust |-> Mask(gust, QLess(Q(150, 1), gust) \/ QLess(gust, Q(0, 1))),
            dir |-> Mask(direction, \/ QLess(Q(360, 1), direction)
                                    \/ QLess(direction, Q(0, 1))
                                    \/ direction = Q(Sentinel, 1))]]

CsvFile(stem, rows) == [stem |-> stem \o S_site, rows |-> rows]

\* script.load_existing_data: pd.read_csv of a table written by to_csv
load_existing_data(file) == file

\* fetch_meteostat_data writes meteostat1_<site>.csv
FetchMeteostat ==
    /\ fpc = "fetch"
    /\ provider = "meteostat"
    /\ site_csv' = <<CsvFile(S_meteostat1, meteostat_daily(raw, options))>>
    /\ fpc' = "fetched"
    /\ UNCHANGED <<provider, options, raw>>
    /\ UNCHANGED <<analysisVars, cmpVars, rerunVars, mainVars, sourceVars>>

\* save_openmeteo_data writes openmeteo_<site>.csv
FetchOpenMeteo ==
    /\ fpc = "fetch"
    /\ provider = "openmeteo"
    /\ site_csv' = <<CsvFile(S_openmeteo, openmeteo_daily(raw))>>
    /\ fpc' = "fetched"
    /\ UNCHANGED <<provider, options, raw>>
    /\ UNCHANGED <<analysisVars, cmpVars, rerunVars, mainVars, sourceVars>>

\* save_era5_data writes era5_<site>.csv (hourly) and era5_daily_<site>.csv; an empty
\* df_final writes nothing
FetchEra5 ==
    /\ fpc = "fetch"
    /\ provider = "era5"
    /\ LET df_final == read_era5_csv(raw)
       IN site_csv' = IF df_final = <<>> THEN <<>>
                      ELSE <<CsvFile(S_era5, df_final), CsvFile(S_era5_daily, era5_daily(df_final))>>
    /\ fpc' = "fetched"
    /\ UNCHANGED <<provider, options, raw>>
    /\ UNCHANGED <<analysisVars, cmpVars, rerunVars, mainVars, sourceVars>>

\* fetch_nasa_power_data writes nasa_power_<site>.csv
FetchNasaPower ==
    /\ fpc = "fetch"
    /\ provider = "nasa_power"
    /\ site_csv' = <<CsvFile(S_nasa_power, nasa_power_daily(raw))>>
    /\ fpc' = "fetched"
    /\ UNCHANGED <<provider, options, raw>>
    /\ UNCHANGED <<analysisVars, cmpVars, rerunVars, mainVars, sourceVars>>

\* main: fetch_isd_series(..., return_raw=True), then export_site_data writes the table
\* to noaa_station1_<site>.csv
FetchNoaa ==
    /\ fpc = "fetch"
    /\ provider = "noaa"
    /\ site_csv' = <<CsvFile(S_noaa_station1, fetch_isd_series_raw(raw))>>
    /\ fpc' = "fetched"
    /\ UNCHANGED <<provider, options, raw>>
    /\ UNCHANGED <<analysisVars, cmpVars, rerunVars, mainVars, sourceVars>>

\* main run again on the site: every file is there, load_existing_data reads it and
\* export_site_data writes it back
ReadCache ==
    /\ fpc = "fetched"
    /\ site_csv' = [k \in 1..Len(site_csv) |-> load_existing_data(site_csv[k])]
    /\ fpc' = "cached"
    /\ UNCHANGED <<provider, options, raw>>
    /\ UNCHANGED <<analysisVars, cmpVars, rerunVars, mainVars, sourceVars>>

\* the observations of the providers
Obs(speed, gust, dir) == [speed |-> speed, gust |-> gust, dir |-> dir]

ProviderObs(p) ==
    CASE p = "meteostat" -> {Obs(18, NaN, 0), Obs(36, NaN, 90), Obs(NaN, 72, NaN)}
      [] p = "openmeteo" -> {Obs(1, 2, 350), Obs(3, 4, 10), Obs(3, NaN, 20)}
      [] p = "era5" -> {Obs(1, NaN, -180), Obs(3, NaN, 170), Obs(2, NaN, -170), Obs(NaN, NaN, NaN)}
      [] p = "nasa_power" -> {Obs(1, 2, 350), Obs(3, NaN, 10)}
      [] p = "noaa" -> {Obs(18, NaN, 360), Obs(36, 72, 999), Obs(9999, 9999, -10),
                        Obs(36, 1800, 370)}

\* the observations in time order; a daily provider has one observation per day
Feeds(p) ==
    {f \in UNION {[1..n -> {[day |-> d, speed |-> o.speed, gust |-> o.gust, dir |-> o.dir] :
                               d \in 1..MaxDays, o \in ProviderObs(p)}] : n \in 1..MaxObs} :
        /\ \A k \in 1..(Len(f) - 1) : f[k].day <= f[k + 1].day
        /\ p = "nasa_power" => \A k \in 1..(Len(f) - 1) : f[k].day < f[k + 1].day}

Factors == {NoFactor, 2}

InitFetch ==
    /\ InitRun
    /\ files = {}
    /\ unwritable = {}
    /\ InitCmpIdle
    /\ InitMainIdle
    /\ site_folder = {}
    /\ previous_csv = <<>>
    /\ previous_dataframes = <<>>
    /\ site_config = NoConfig
    /\ rerun = FALSE
    /\ provider \in {"meteostat", "openmeteo", "era5", "nasa_power", "noaa"}
    /\ options \in [mean_correction_factor : Factors, gust_correction_factor : Factors]
    /\ provider # "meteostat" =>
          options = [mean_correction_factor |-> NoFactor, gust_correction_factor |-> NoFactor]
    /\ raw \in Feeds(provider)
    /\ site_csv = <<>>
    /\ fpc = "fetch"
    /\ InitSourcesIdle

NextFetch ==
    \/ FetchMeteostat
    \/ FetchOpenMeteo
    \/ FetchEra5
    \/ FetchNasaPower
    \/ FetchNoaa
    \/ ReadCache

SpecFetch == InitFetch /\ [][NextFetch]_vars

(***************************************************************************)
(* script.main: the sources of one site                                    *)
(***************************************************************************)
\* what a file or a table holds: the provider (station) the data come from, and
\* whether they were in the folder before this run or fetched by it
Cached(origin) == [origin |-> origin, version |-> "cached"]
Fetched(origin) == [origin |-> origin, version |-> "fetched"]

\* the station or model a source key stands for
OriginOf(key) ==
    CASE key = "meteostat1" -> "station1"
      [] key = "meteostat2" -> "station2"
      [] OTHER -> key

\* dict.update: the entries of b replace those of a
DictUpdate(a, b) == [k \in DOMAIN a |-> IF k \in DOMAIN b /\ b[k] # NoFile THEN b[k] ELSE a[k]]

\* fetch_meteostat_data(..., station_ids=[station]): the table of the station, if any, is
\* written to meteostat{i}_<site>.csv with i the rank in station_ids, here always 1
fetch_meteostat_data(d, station) ==
    IF outcomes[station] = "ok"
    THEN [disk |-> [d EXCEPT !["meteostat1"] = Fetched(OriginOf(station))],
          meteostat1 |-> Fetched(OriginOf(station))]
    ELSE [disk |-> d, meteostat1 |-> NoFile]

\* fetch_observed_sources: station 1, then station 2
fetch_observed_sources(d) ==
    LET first == fetch_meteostat_data(d, "meteostat1")
        second == fetch_meteostat_data(first.disk, "meteostat2")
    IN [disk |-> second.disk,
        observed |-> [k \in {"meteostat1", "meteostat2"} |->
                         IF k = "meteostat1" THEN first.meteostat1 ELSE second.meteostat1]]

\* save_openmeteo_data, fetch_nasa_power_data, save_era5_data: the table is written to
\* <key>_<site>.csv
SaveModel(d, key) ==
    IF outcomes[key] = "ok" THEN [d EXCEPT ![key] = Fetched(key)] ELSE d

\* fetch_model_source: OpenMeteo and NASA POWER are asked, ERA5 only without its files
fetch_model_source(d) ==
    LET d1 == SaveModel(d, "openmeteo")
        d2 == SaveModel(d1, "nasa_power")
        d3 == IF d["era5"] # NoFile THEN d2 ELSE SaveModel(d2, "era5")
    IN [disk |-> d3,
        model |-> [k \in {"openmeteo", "nasa_power", "era5"} |->
                      IF k = "era5" \/ outcomes[k] = "ok" THEN d3[k] ELSE NoFile],
        called |-> {"openmeteo", "nasa_power"}
                   \cup (IF d["era5"] # NoFile THEN {} ELSE {"era5"})]

\* main, "observed = {}" to "observed.update(fetched_observed)"
MainObserved ==
    /\ spc = "observed"
    /\ LET keys == {"meteostat1", "meteostat2"}
           observed == [k \in keys |-> disk[k]]
           fetched_observed == fetch_observed_sources(disk)
       IN IF \A k \in keys : observed[k] # NoFile
          THEN /\ site_sources' = DictUpdate(site_sources, observed)
               /\ UNCHANGED <<disk, fetch_log>>
          ELSE /\ site_sources' =
                     DictUpdate(site_sources, DictUpdate(observed, fetched_observed.observed))
               /\ disk' = fetched_observed.disk
               /\ fetch_log' = fetch_log \cup keys
    /\ spc' = "model"
    /\ UNCHANGED <<cache, outcomes>>
    /\ UNCHANGED <<analysisVars, cmpVars, rerunVars, mainVars, fetchVars>>

\* main, "model = {}" to "model.update(fetched_model)"
MainModel ==
    /\ spc = "model"
    /\ LET keys == {"openmeteo", "nasa_power", "era5"}
           model == [k \in keys |-> disk[k]]
           fetched_model == fetch_model_source(disk)
       IN IF \A k \in keys : model[k] # NoFile
          THEN /\ site_sources' = DictUpdate(site_sources, model)
               /\ UNCHANGED <<disk, fetch_log>>
          ELSE /\ site_sources' =
                     DictUpdate(site_sources, DictUpdate(model, fetched_model.model))
               /\ disk' = fetched_model.disk
               /\ fetch_log' = fetch_log \cup fetched_model.called
    /\ spc' = "export"
    /\ UNCHANGED <<cache, outcomes>>
    /\ UNCHANGED <<analysisVars, cmpVars, rerunVars, mainVars, fetchVars>>

\* export_site_data writes <key>_<site>.csv for every table of site_data["data"]; then
\* run_analysis_for_site reads the folder
MainExport ==
    /\ spc = "export"
    /\ disk' = DictUpdate(disk, site_sources)
    /\ spc' = "analysis"
    /\ UNCHANGED <<cache, outcomes, site_sources, fetch_log>>
    /\ UNCHANGED <<analysisVars, cmpVars, rerunVars, mainVars, fetchVars>>

\* a site folder with any of the source files, and any answer of the providers
InitSources ==
    /\ InitRun
    /\ files = {}
    /\ unwritable = {}
    /\ InitCmpIdle
    /\ InitMainIdle
    /\ InitFetchIdle
    /\ site_folder = {}
    /\ previous_csv = <<>>
    /\ previous_dataframes = <<>>
    /\ site_config = NoConfig
    /\ rerun = FALSE
    /\ \E present \in SUBSET SourceKeys :
          cache = [k \in SourceKeys |-> IF k \in present THEN Cached(OriginOf(k)) ELSE NoFile]
    /\ disk = cache
    /\ outcomes \in [SourceKeys -> {"ok", "empty", "error"}]
    /\ \A k \in {"openmeteo", "nasa_power", "era5"} : outcomes[k] # "empty"
    /\ site_sources = [k \in SourceKeys |-> NoFile]
    /\ fetch_log = {}
    /\ spc = "observed"

NextSources ==
    \/ MainObserved
    \/ MainModel
    \/ MainExport

SpecSources == InitSources /\ [][NextSources]_vars

(***************************************************************************)
(* Properties of the return-period pass                                    *)
(***************************************************************************)
DfOf(name) == dataframes[CHOOSE k \in 1..Len(dataframes) : dataframes[k].key = name].df

RowsOf(name, varname) ==
    {j \in 1..Len(results_50y) :
        results_50y[j].Source = name /\ results_50y[j].Variable = varname}

ExportsOf(name, varname) ==
    {j \in 1..Len(exports) : exports[j].name = name /\ exports[j].var = varname}

FitsOf(name, varname) ==
    {j \in 1..Len(fitted) : fitted[j].name = name /\ fitted[j].var = varname}

\* the years of a table's column that hold a measurement: a non-missing value,
\* strictly greater than 0, on a valid date
ValidDays(df, varname, y) ==
    {j \in 1..Len(df.rows) :
        /\ df.rows[j].year = y
        /\ y # NaT
        /\ Cell(df.rows[j], varname) # NaN
        /\ Cell(df.rows[j], varname) > 0}

YearsWithData(df, varname) ==
    {df.rows[j].year : j \in {i \in 1..Len(df.rows) :
                                ValidDays(df, varname, df.rows[i].year) # {}}}

\* the number of annual maxima the table of a results row gives
SampleSize(name, varname) == Cardinality(YearsWithData(DfOf(name), varname))

\* the combination (k-th source, v-th variable) is behind the pass
Passed(k, v) ==
    /\ pc \in {"rp", "done"}
    /\ pos[1] > k \/ (pos[1] = k /\ pos[2] > v)

EndOfRun == pc \in {"done", "raised in export_annual_max"}

\* C1: a return level is "N/A" whenever the annual-maxima sample has fewer than 10
\* values, and a number whenever it has at least 10 values and the fit succeeds
C1_HardGate ==
    \A j \in 1..Len(results_50y) :
        LET r == results_50y[j]
            n == SampleSize(r.Source, r.Variable)
        IN /\ (/\ n < UncertainYears
               /\ \A f \in FitsOf(r.Source, r.Variable) : fitted[f].fit # "nonfinite")
                 => r.Return_Period_50y = NA
           /\ (/\ n >= UncertainYears
               /\ \E f \in FitsOf(r.Source, r.Variable) : fitted[f].fit = "finite")
                 => r.Return_Period_50y.kind = "num"

\* C2: when the fit raises or yields a non-finite value the return level is "N/A";
\* no NaN or infinite value is stored in results_50y
C2_NoNonFinite ==
    /\ \A j \in 1..Len(results_50y) : results_50y[j].Return_Period_50y.kind # "nan"
    /\ \A f \in 1..Len(fitted) :
          fitted[f].fit \in {"raise", "nonfinite"}
            => \A j \in RowsOf(fitted[f].name, fitted[f].var) :
                   results_50y[j].Return_Period_50y = NA

\* C3: after the pass results_50y holds exactly one row for every loaded source that
\* is not excluded and each of the two variables
C3_OneRowPerCombination ==
    pc = "done" =>
        \A k \in 1..Len(dataframes), v \in 1..Len(Variables) :
            ~StartsWith(dataframes[k].key, S_noaa)
              => Cardinality(RowsOf(dataframes[k].key, Variables[v])) = 1

\* C4: a failure while one combination is processed never keeps the other
\* combinations from getting their row: when the pass is over every combination
\* whose columns are present has its row
C4_FailureIsolation ==
    EndOfRun =>
        \A k \in 1..Len(dataframes), v \in 1..Len(Variables) :
            (/\ ~StartsWith(dataframes[k].key, S_noaa)
             /\ {Variables[v], "time"} \subseteq dataframes[k].df.cols
             /\ <<dataframes[k].key, Variables[v]>> \notin unwritable)
              => RowsOf(dataframes[k].key, Variables[v]) # {}

\* C5: a source whose key starts with "noaa" and that has at least 5 valid
\* windspeed_mean values is in the descriptive statistics, and no row of results_50y
\* has such a source
C5_ReferenceOnly ==
    /\ \A j \in 1..Len(results_50y) : ~StartsWith(results_50y[j].Source, S_noaa)
    /\ pc \notin {"idle", "load", "stats", "stopped"} =>
          \A k \in 1..Len(dataframes) :
              LET df == dataframes[k].df
              IN (/\ StartsWith(dataframes[k].key, S_noaa)
                  /\ "windspeed_mean" \in df.cols
                  /\ Cardinality({j \in 1..Len(df.rows) : df.rows[j].mean # NaN}) >= 5)
                    => dataframes[k].key \in stats_summary

C5_Witness ==
    /\ pc = "done"
    /\ results_50y # <<>>
    /\ \E k \in 1..Len(dataframes) :
          /\ StartsWith(dataframes[k].key, S_noaa)
          /\ dataframes[k].key \in stats_summary
          /\ {"windspeed_mean", "time"} \subseteq dataframes[k].df.cols

\* C8: every value of an annual-maxima sample, exported or fitted, is >= every valid
\* daily value of its calendar year and is the value of a row of that year
IsYearMaximum(df, varname, e) ==
    /\ \A j \in 1..Len(df.rows) :
          (df.rows[j].year = e.year /\ Cell(df.rows[j], varname) # NaN)
            => Cell(df.rows[j], varname) <= e.val
    /\ \E j \in 1..Len(df.rows) :
          df.rows[j].year = e.year /\ Cell(df.rows[j], varname) = e.val

C8_AnnualMaximum ==
    /\ \A x \in 1..Len(exports) : \A j \in 1..Len(exports[x].rows) :
          IsYearMaximum(DfOf(exports[x].name), exports[x].var, exports[x].rows[j])
    /\ \A x \in 1..Len(fitted) : \A j \in 1..Len(fitted[x].sample) :
          IsYearMaximum(DfOf(fitted[x].name), fitted[x].var, fitted[x].sample[j])

\* some year of an exported sample has two different valid values
C8_Witness ==
    \E x \in 1..Len(exports) : \E j \in 1..Len(exports[x].rows) :
        LET df == DfOf(exports[x].name)
            y == exports[x].rows[j].year
        IN \E a, b \in ValidDays(df, exports[x].var, y) :
              Cell(df.rows[a], exports[x].var) < Cell(df.rows[b], exports[x].var)

\* C9: an annual-maxima sample has exactly one entry per calendar year with at least
\* one valid daily value, in ascending year order; a year without a valid day is
\* absent, it is not an entry with a missing value or 0
IsSampleOf(df, varname, sample) ==
    /\ \A j \in 1..(Len(sample) - 1) : sample[j].year < sample[j + 1].year
    /\ {sample[j].year : j \in 1..Len(sample)} = YearsWithData(df, varname)
    /\ \A j \in 1..Len(sample) : sample[j].val # NaN /\ sample[j].val # 0

NoValidValue(df, varname) ==
    \A j \in 1..Len(df.rows) :
        \/ Cell(df.rows[j], varname) = NaN
        \/ Cell(df.rows[j], varname) <= 0
        \/ df.rows[j].year = NaT

IsEmptyCombination(k, v) ==
    /\ ~StartsWith(dataframes[k].key, S_noaa)
    /\ {Variables[v], "time"} \subseteq dataframes[k].df.cols
    /\ NoValidValue(dataframes[k].df, Variables[v])

C10_EmptySeries ==
    \A k \in 1..Len(dataframes), v \in 1..Len(Variables) :
        IsEmptyCombination(k, v) =>
            /\ ExportsOf(dataframes[k].key, Variables[v]) = {}
            /\ ~(pc = "raised in export_annual_max" /\ pos = <<k, v>>)
            /\ Passed(k, v) =>
                  /\ Cardinality(RowsOf(dataframes[k].key, Variables[v])) = 1
                  /\ \A j \in RowsOf(dataframes[k].key, Variables[v]) :
                        results_50y[j].Return_Period_50y = NA

\* the run has gone past a combination whose values are all missing and past one
\* whose values are all 0, and has ended
C10_Witness ==
    /\ pc = "done"
    /\ \E k \in 1..Len(dataframes), v \in 1..Len(Variables) :
          /\ IsEmptyCombination(k, v)
          /\ dataframes[k].df.rows # <<>>
          /\ \A j \in 1..Len(dataframes[k].df.rows) :
                Cell(dataframes[k].df.rows[j], Variables[v]) = NaN
          /\ RowsOf(dataframes[k].key, Variables[v]) # {}
    /\ \E k \in 1..Len(dataframes), v \in 1..Len(Variables) :
          /\ IsEmptyCombination(k, v)
          /\ dataframes[k].df.rows # <<>>
          /\ \A j \in 1..Len(dataframes[k].df.rows) :
                Cell(dataframes[k].df.rows[j], Variables[v]) = 0
          /\ RowsOf(dataframes[k].key, Variables[v]) # {}

(***************************************************************************)
(* Properties of the comparison with the building code                     *)
(***************************************************************************)
\* C6: with at least one source, the sentence has exactly one of three tendencies:
\* over-design iff no source exceeds; otherwise under-design iff at least half of
\* the sources exceed; otherwise partial exceedance
C6_Classification ==
    cpc = "reported" =>
        LET nb_sources == Len(ecarts)
        IN (nb_sources >= 1 /\ nb_depassements \in 0..nb_sources) =>
             /\ phrase.kind = "phrase"
             /\ phrase.tendance \in {"surdimensionnement", "sous-estimation", "a surveiller"}
             /\ phrase.tendance = "surdimensionnement" <=> nb_depassements = 0
             /\ phrase.tendance = "sous-estimation" <=>
                    (nb_depassements > 0 /\ nb_depassements + nb_depassements >= nb_sources)
             /\ phrase.tendance = "a surveiller" <=>
                    (nb_depassements > 0 /\ nb_depassements + nb_depassements < nb_sources)

\* exactly half of the sources exceed and the majority branch is taken
C6_Witness ==
    /\ cpc = "reported"
    /\ Len(ecarts) = 2
    /\ nb_depassements = 1
    /\ phrase.tendance = "sous-estimation"

\* C7: the deviations are return_level - threshold in row order, and
\* nb_depassements counts the rows whose deviation is strictly positive
C7_Deviations ==
    cpc \in {"compared", "reported"} =>
        /\ Len(ecarts) = Len(df_mean)
        /\ \A k \in 1..Len(df_mean) :
              ecarts[k] = df_mean[k].windspeed_mean_50y - building_code
        /\ nb_depassements = Cardinality({k \in 1..Len(ecarts) : ecarts[k] > 0})
        /\ nb_depassements \in 0..Len(df_mean)

\* a return level equal to the threshold next to one above it
C7_Witness ==
    /\ cpc = "compared"
    /\ \E k \in 1..Len(ecarts) : ecarts[k] = 0
    /\ \E k \in 1..Len(ecarts) : ecarts[k] > 0
    /\ nb_depassements = 1

(***************************************************************************)
(* Properties of the tables the analysis reads                             *)
(***************************************************************************)
\* C11: a daily value equal to the sentinel 999 is no measurement: it is not in the
\* sample of the descriptive statistics and not in an annual-maxima sample
C11_SentinelExcluded ==
    /\ \A st \in df_stats :
          /\ st.max # Sentinel
          /\ st.count = Cardinality({j \in 1..Len(DfOf(st.source).rows) :
                                        DfOf(st.source).rows[j].mean \notin {NaN, Sentinel}})
    /\ \A x \in 1..Len(exports) : \A j \in 1..Len(exports[x].rows) :
          exports[x].rows[j].val # Sentinel
    /\ \A x \in 1..Len(fitted) : \A j \in 1..Len(fitted[x].sample) :
          fitted[x].sample[j].val # Sentinel

\* C17: when a loaded table lacks the time column or a wind-speed column, the run does
\* not raise: process_outliers does not end it
C17_MissingColumnSkipped ==
    (\E k \in 1..Len(dataframes) : ~(FullCols \subseteq dataframes[k].df.cols))
      => pc # "raised in process_outliers"

C30_ThresholdFallback ==
    \A j \in 1..Len(results_50y) :
        LET cell == site_config[results_50y[j].Variable]
            bc_threshold == results_50y[j].Seuil_BuildingCode
        IN /\ bc_threshold # NaN
           /\ bc_threshold > 0
           /\ bc_threshold = IF cell.kind = "num" /\ cell.val # 0 THEN cell.val
                             ELSE DefaultThreshold

(***************************************************************************)
(* Properties of two runs on one folder                                    *)
(***************************************************************************)
\* the (Source, Variable) pairs of the rows of a return_period_50y.csv, in row order
RowOrder(rows) == [j \in 1..Len(rows) |-> <<rows[j].Source, rows[j].Variable>>]

\* C19: the rows of return_period_50y.csv are grouped by source, windspeed_mean
\* before windspeed_gust, and two runs on the same files give them in the same order
C19_StableOrder ==
    /\ \A i, j \in 1..Len(results_50y) :
          (i < j /\ results_50y[i].Source = results_50y[j].Source)
            => /\ \A m \in i..j : results_50y[m].Source = results_50y[i].Source
               /\ results_50y[i].Variable = "windspeed_mean"
               /\ results_50y[j].Variable = "windspeed_gust"
    /\ (rerun /\ pc = "done") => RowOrder(results_50y) = RowOrder(previous_csv)

\* the table bound to a key of a dict of tables
TableOf(d, key) == d[CHOOSE k \in 1..Len(d) : d[k].key = key].df

\* the files of the folder that the loading loop reads
Recognised == {f \in site_folder : IsExpected(f.stem)}

\* C21: the loading step run twice on one folder gives the same keys, each bound to
\* the same table, and harmonising a loaded table again changes nothing
C21_LoadIdempotent ==
    /\ (rerun /\ pc # "load") =>
          /\ Keys(dataframes) = Keys(previous_dataframes)
          /\ \A key \in Keys(dataframes) :
                TableOf(dataframes, key) = TableOf(previous_dataframes, key)
    /\ \A k \in 1..Len(dataframes) : Harmonise(dataframes[k].df) = dataframes[k].df

\* C25: after the loading loop every recognised file of the folder has its table in
\* dataframes, under a key of its own
C25_OneKeyPerFile ==
    pc # "load" =>
        /\ Len(dataframes) = Cardinality(Recognised)
        /\ \A f \in Recognised : \E k \in 1..Len(dataframes) :
              /\ StartsWith(f.stem, dataframes[k].key)
              /\ dataframes[k].df = Harmonise(f)

\* C29: generate_analysis_sentence on an empty list of deviations (nb_sources = 0)
\* returns the sentence "Aucune source valide disponible."
C29_NoSourceSentence ==
    (cpc = "reported" /\ ecarts = <<>>) => phrase.kind = "aucune source"

(***************************************************************************)
(* Properties of the batch                                                 *)
(***************************************************************************)
\* C18: the analysis of a site without a usable source stops without raising, and
\* when main has ended every site that was not already processed has been analysed
\* (batches whose first site is analysed, so that site_data is bound)
C18_SitesIsolated ==
    /\ \A a \in 1..Len(analysed) :
          (\A f \in sites[analysed[a].site].folder : ~IsExpected(f.stem))
            => analysed[a].outcome = "stopped"
    /\ (mpc \in {"done", "raised"} /\ sites # <<>> /\ ~sites[1].already_processed) =>
          \A k \in 1..Len(sites) :
              ~sites[k].already_processed => \E a \in 1..Len(analysed) : analysed[a].site = k

\* C26: while main goes through the sites all_sites_data holds one entry per site
\* gone through, the entry at position i describing site i, and skipping the first
\* site does not end main
C26_OneEntryPerSite ==
    /\ mpc \in {"loop", "done"} =>
          /\ Len(all_sites_data) = site_i - 1
          /\ \A i \in 1..Len(all_sites_data) : all_sites_data[i] = sites[i].name
    /\ (sites # <<>> /\ sites[1].already_processed /\ site_i = 2) => mpc = "loop"

(***************************************************************************)
(* Properties of the fetched tables                                        *)
(***************************************************************************)
\* the tables of the site folder that run_analysis_for_site loads
Analysed == {k \in 1..Len(site_csv) : IsExpected(site_csv[k].stem)}

\* an observation whose speed the provider reports as a measurement
ValidSpeed(o) == o.speed # NaN /\ (provider = "noaa" => o.speed <= 1000)

\* the speed of an observation in m/s
InMs(o) ==
    CASE provider = "meteostat" -> Q(o.speed * 10, 36)
      [] provider = "noaa" -> Q(o.speed, 10)
      [] OTHER -> Q(o.speed, 1)

\* the optional correction of the Meteostat fetcher, 1 when none is asked for
MeanFactor == IF options.mean_correction_factor = NoFactor THEN 1
              ELSE options.mean_correction_factor

\* the valid observations of a calendar day
ValidOfDay(d) == {k \in 1..Len(raw) : raw[k].day = d /\ ValidSpeed(raw[k])}

IsDaily(rows) == \A i, j \in 1..Len(rows) : i # j => rows[i].day # rows[j].day

\* C12: the daily windspeed_mean of a source with a sub-daily feed is the maximum of
\* the sub-daily means of its day: no sub-daily value of the day is above it
C12_DailyMaximum ==
    provider \in {"meteostat", "era5", "noaa", "openmeteo"} =>
        \A f \in Analysed :
            IsDaily(site_csv[f].rows) =>
                \A j \in 1..Len(site_csv[f].rows) :
                    LET row == site_csv[f].rows[j]
                    IN \A k \in ValidOfDay(row.day) :
                          /\ ~IsNaN(row.mean)
                          /\ ~QLess(row.mean,
                                    QMul(apply_10min_equivalent(InMs(raw[k]), provider),
                                         Q(MeanFactor, 1)))

\* C13: every analysed table is a daily series: its dates are strictly increasing
C13_DailySeries ==
    \A f \in Analysed :
        \A j \in 1..(Len(site_csv[f].rows) - 1) :
            site_csv[f].rows[j].day < site_csv[f].rows[j + 1].day

\* C14: apply_10min_equivalent multiplies by 1.10 for era5, nasa_power and openmeteo
\* and by 1 for any other source; a value of the analysed table carries the factor
\* exactly once for these three sources and not at all for the others (a missing
\* value carries none), also after the table is read back from the site folder
C14_FactorOnce ==
    /\ \A k \in 1..Len(raw) : \A p \in {"era5", "nasa_power", "openmeteo", "meteostat",
                                         "noaa", "unknown"} :
          apply_10min_equivalent(FromRaw(raw[k].speed), p) =
              IF p \in {"era5", "nasa_power", "openmeteo"}
              THEN (IF raw[k].speed = NaN THEN QNaN ELSE Q(raw[k].speed * 11, 10))
              ELSE FromRaw(raw[k].speed)
    /\ \A f \in Analysed : \A j \in 1..Len(site_csv[f].rows) :
          LET row == site_csv[f].rows[j]
              speeds == {InMs(raw[k]) : k \in ValidOfDay(row.day)}
          IN \A v \in speeds :
                speeds = {v} =>
                    IsNaN(row.mean) \/
                    row.mean = IF provider \in {"era5", "nasa_power", "openmeteo"}
                               THEN Q(v.n * 11, v.d * 10)
                               ELSE Q(v.n * MeanFactor, v.d)

\* a table of an hourly-origin source read back from the folder
C14_Witness ==
    /\ fpc = "cached"
    /\ provider = "era5"
    /\ \E f \in Analysed : \E j \in 1..Len(site_csv[f].rows) :
          site_csv[f].rows[j].mean = Q(33, 10)

\* C15: the daily Meteostat table equals the one computed by hand from the speeds
\* converted to m/s: daily maximum, then the mean correction, then the gust fallback
C15_KmhFirst ==
    provider = "meteostat" =>
        \A f \in Analysed : \A j \in 1..Len(site_csv[f].rows) :
            LET row == site_csv[f].rows[j]
                day == {k \in 1..Len(raw) : raw[k].day = row.day}
                kmh == {raw[k].speed : k \in day} \ {NaN}
                gusts == {raw[k].gust : k \in day} \ {NaN}
                mean == IF kmh = {} THEN QNaN ELSE Q(SetMax(kmh) * 10 * MeanFactor, 36)
                gust == IF gusts # {} THEN Q(SetMax(gusts) * 10, 36)
                        ELSE IF options.gust_correction_factor = NoFactor \/ IsNaN(mean)
                        THEN QNaN
                        ELSE Q(mean.n * options.gust_correction_factor, mean.d)
            IN row.mean = mean /\ row.gust = gust

\* a day with two different speeds and no gust, both corrections asked for
C15_Witness ==
    /\ provider = "meteostat"
    /\ fpc = "fetched"
    /\ options.mean_correction_factor # NoFactor
    /\ options.gust_correction_factor # NoFactor
    /\ \E f \in Analysed : \E j \in 1..Len(site_csv[f].rows) :
          /\ site_csv[f].rows[j].mean = Q(20, 1)
          /\ site_csv[f].rows[j].gust = Q(40, 1)
          /\ \E k \in 1..Len(raw) : raw[k].day = site_csv[f].rows[j].day /\ raw[k].speed = 18

\* C16: a wind direction of a fetched table is missing or in [0, 360)
C16_DirectionRange ==
    provider \in {"noaa", "era5", "meteostat"} =>
        \A f \in Analysed : \A j \in 1..Len(site_csv[f].rows) :
            LET d == site_csv[f].rows[j].dir
            IN IsNaN(d) \/ (~QLess(d, Q(0, 1)) /\ QLess(d, Q(360, 1)))

\* the directions, as the fetcher reads them, of the samples of a day that it keeps
SampleDirs(d) ==
    LET Ok(o) == /\ o.day = d
                 /\ o.dir # NaN
                 /\ provider = "era5" => o.speed # NaN
        kept == SelectSeq(raw, Ok)
    IN [k \in 1..Len(kept) |-> IF provider = "era5" THEN (kept[k].dir + 180) % 360
                               ELSE kept[k].dir]

\* C22: the daily wind_direction of a source aggregated from sub-daily samples is the
\* vector mean of the samples of the day: as many samples at 350 as at 10 degrees, and
\* no other, give the direction 0
C22_VectorMean ==
    (fpc = "fetched" /\ provider \in {"meteostat", "openmeteo", "era5"}) =>
        \A f \in Analysed : \A j \in 1..Len(site_csv[f].rows) :
            LET dirs == SampleDirs(site_csv[f].rows[j].day)
                n350 == Cardinality({k \in 1..Len(dirs) : dirs[k] = 350})
                n10 == Cardinality({k \in 1..Len(dirs) : dirs[k] = 10})
            IN (IsDaily(site_csv[f].rows) /\ n350 > 0 /\ n350 = n10 /\ n350 + n10 = Len(dirs))
                  => site_csv[f].rows[j].dir = Q(0, 1)

\* the gusts, in km/h, that the station reports on a day
GustsOfDay(d) == {raw[k].gust : k \in {i \in 1..Len(raw) : raw[i].day = d}} \ {NaN}

\* C24: in the Meteostat table a day with a gust keeps the maximum of its gusts whatever
\* gust_correction_factor is; a day without one gets gust_correction_factor x
\* windspeed_mean when the factor is given and stays missing when it is None
C24_GustFallback ==
    (provider = "meteostat" /\ fpc = "fetched") =>
        \A f \in Analysed : \A j \in 1..Len(site_csv[f].rows) :
            LET row == site_csv[f].rows[j]
                gusts == GustsOfDay(row.day)
                factor == options.gust_correction_factor
            IN /\ gusts # {} => row.gust = Q(SetMax(gusts) * 10, 36)
               /\ (gusts = {} /\ factor = NoFactor) => IsNaN(row.gust)
               /\ (gusts = {} /\ factor # NoFactor) =>
                     row.gust = QMul(row.mean, Q(factor, 1))

\* with the factor given, a table with a day that has a gust and a day that has none
\* and gets a number; and a table with a day left without a gust when it is None
C24_Witness ==
    /\ provider = "meteostat"
    /\ fpc = "fetched"
    /\ \E f \in Analysed : \E i, j \in 1..Len(site_csv[f].rows) :
          /\ GustsOfDay(site_csv[f].rows[i].day) # {}
          /\ GustsOfDay(site_csv[f].rows[j].day) = {}
          /\ ~IsNaN(site_csv[f].rows[i].gust)
          /\ options.gust_correction_factor # NoFactor
          /\ site_csv[f].rows[j].gust = Q(2 * 5 * MeanFactor, 1)

\* gust_correction_factor None: the day without a gust stays without one
C24_WitnessNone ==
    /\ provider = "meteostat"
    /\ fpc = "fetched"
    /\ options.gust_correction_factor = NoFactor
    /\ \E f \in Analysed : \E j \in 1..Len(site_csv[f].rows) :
          /\ GustsOfDay(site_csv[f].rows[j].day) = {}
          /\ IsNaN(site_csv[f].rows[j].gust)
          /\ ~IsNaN(site_csv[f].rows[j].mean)

(***************************************************************************)
(* Properties of the sources of one site                                   *)
(***************************************************************************)
\* C27: when run_analysis_for_site reads the folder, the file meteostat1_<site>.csv,
\* if there is one, holds the data of station 1
C27_Station1File ==
    (spc = "analysis" /\ disk["meteostat1"] # NoFile) =>
        disk["meteostat1"].origin = "station1"

\* C28: a source whose file is in the folder when main reaches the site is not asked
\* from its provider, and its table and its file are still those of the folder
C28_CacheKept ==
    \A k \in SourceKeys :
        cache[k] # NoFile =>
            /\ k \notin fetch_log
            /\ (spc \in {"export", "analysis"} => site_sources[k] = cache[k])
            /\ disk[k] = cache[k]

====
